---- MODULE Spec2Model ----
(***************************************************************************)
(* Model of the SCPI protocol engine of owon-hds200-capture:               *)
(*   - OwonSCPIBase (owon_scpi_base.py), in use through the serial         *)
(*     backend OwonSerialSCPI (owon_serial_scpi.py): backend "base";       *)
(*   - the stand-alone USB engine OwonUSBSCPI (owon_usb_scpi.py):          *)
(*     backend "usb".                                                      *)
(* A command is a sequence of code points, a buffer a sequence of bytes    *)
(* (0..255).  One engine instance serves a single-threaded caller; every   *)
(* set/query call is one action, and the transport's behaviour during the  *)
(* call (the write's status, the read's result) is the action's input.     *)
(* Spec is the engine on an open transport; SpecLife adds close();         *)
(* SpecPure applies the module-level pure functions (the packet parser,    *)
(* the int8 decoder) to inputs of their own.                               *)
(***************************************************************************)
EXTENDS Integers, Sequences, FiniteSets, TLC

VARIABLES backend, timeout, max_response_size, pc, call, io, result,
          handle, released, fn_in, fn_out,
          th, lock, wire, pending, calls

\* the engine's surroundings: the calling threads and their mutex, the bytes
\* on their way from the device, the answers the device has yet to send, and
\* the number of calls made
env == <<th, lock, wire, pending, calls>>

vars == <<backend, timeout, max_response_size, pc, call, io, result,
          handle, released, fn_in, fn_out, env>>

----------------------------------------------------------------------------
(* Bounds of the model and program constants *)

\* longest command the caller passes
MaxCmdLen == 2
\* longest body (the bytes after an optional 4-byte header) the device sends
MaxBodyLen == 2

\* parse_and_validate_packet: UNREASONABLE_PACKET_HEADER_LENGTH
UNREASONABLE_PACKET_HEADER_LENGTH == 4096
\* size of the little-endian length header
HEADER_SIZE == 4
\* OwonSCPIBase.__init__ default timeout (ms)
DEFAULT_TIMEOUT == 1000
\* OwonSerialSCPI.__init__ / OwonUSBSCPI.__init__: max_response_size
MAX_RESPONSE_SIZE == 2048
\* "\n"
NEWLINE == 10

\* code points a command is made of: "A", "\n", the control character SOH,
\* and the non-ASCII character e-acute
CmdChars == {65, NEWLINE, 1, 233}
\* bytes of a response body: "\n", "1", and 0xFF
BodyBytes == {NEWLINE, 49, 255}
\* lengths a response header declares
DeclaredLens == {0, 1, 2, 4097}
\* timeouts (ms) an engine is constructed with
Timeouts == {DEFAULT_TIMEOUT, 250}

Backends == {"base", "usb"}
\* data_type: the four of Literal["str", "bin", "int8", "json"], and one value
\* outside the declared type
DataTypes == {"str", "bin", "int8", "json"}
AnyDataType == DataTypes \cup {"other"}

----------------------------------------------------------------------------
(* Sequences *)

SeqsUpTo(S, n) == UNION {[1..k -> S] : k \in 0..n}

Take(s, n) == SubSeq(s, 1, IF n < Len(s) THEN n ELSE Len(s))

Drop(s, n) == SubSeq(s, n + 1, Len(s))

\* a slice that forgets its upper end: s[lo:]
Slice_ToEnd(s, lo, hi) == SubSeq(s, lo + 1, Len(s))

\* s[lo:hi] for 0 <= lo, 0 <= hi: the slice is clamped to the sequence
Slice(s, lo, hi) == SubSeq(s, lo + 1, IF hi < Len(s) THEN hi ELSE Len(s))

\* bytes.rfind in the place of bytes.find: index of the last occurrence
Find_Last(s, b) ==
    IF \E i \in 1..Len(s) : s[i] = b
    THEN (CHOOSE i \in 1..Len(s) : s[i] = b /\ \A j \in (i + 1)..Len(s) : s[j] # b) - 1
    ELSE -1

\* bytes.find(b"\n"): index (0-based) of the first newline, -1 if none
Find(s, b) ==
    IF \E i \in 1..Len(s) : s[i] = b
    THEN (CHOOSE i \in 1..Len(s) : s[i] = b /\ \A j \in 1..(i - 1) : s[j] # b) - 1
    ELSE -1

\* the header read with byteorder="big"
RECURSIVE FromBytesLittle_BigEndian(_)
FromBytesLittle_BigEndian(b) ==
    IF Len(b) = 0 THEN 0
    ELSE LET rest == FromBytesLittle_BigEndian(Take(b, Len(b) - 1)) IN
         IF rest > (2147483647 - b[Len(b)]) \div 256
         THEN 2147483647
         ELSE b[Len(b)] + 256 * rest

\* int.from_bytes(b, byteorder="little", signed=False).  The checker's
\* integers end at 2147483647: a larger value (a 4-byte header from
\* 0x80000000 on) is held as 2147483647, which the parser, comparing it with
\* 0, 4096 and the buffer's length only, cannot tell from the value itself.
RECURSIVE FromBytesLittle(_)
FromBytesLittle(b) ==
    IF Len(b) = 0 THEN 0
    ELSE LET rest == FromBytesLittle(Drop(b, 1)) IN
         IF rest > (2147483647 - b[1]) \div 256
         THEN 2147483647
         ELSE b[1] + 256 * rest

\* n.to_bytes(4, "little"): how the device writes a length header
LenHeader(n) ==
    <<n % 256, (n \div 256) % 256, (n \div 65536) % 256, (n \div 16777216) % 256>>

----------------------------------------------------------------------------
(* Inputs *)

Commands == SeqsUpTo(CmdChars, MaxCmdLen)

Bodies == SeqsUpTo(BodyBytes, MaxBodyLen)

\* what one bounded read can deliver: a bare body (newline framed, or short),
\* or a length header followed by a body (exact, truncated or with extra bytes)
Buffers == Bodies \cup {LenHeader(n) \o b : n \in DeclaredLens, b \in Bodies}

\* behaviour of the transport's write during a call
WriteBehaviours == {"ok", "error"}

\* what the write can do on the engine's handle: a closed serial port refuses
\* every write (serial.Serial.write raises on a port that is not open); the
\* USB endpoints stay usable after dispose_resources
WritesOn(b, h) ==
    IF b = "base" /\ h = "closed" THEN {"error"} ELSE WriteBehaviours

\* behaviour of the transport's read during a call: it raises its timeout,
\* raises a transport error, or returns a buffer (possibly empty)
ReadBehaviours ==
    {[kind |-> "timeout", data |-> <<>>], [kind |-> "error", data |-> <<>>]}
    \cup {[kind |-> "data", data |-> b] : b \in Buffers}

\* what a read can do on the engine's handle: a closed serial port refuses
\* every read (serial.Serial.read raises on a port that is not open); the
\* USB endpoints stay usable after dispose_resources
ReadsOn(b, h) ==
    IF b = "base" /\ h = "closed"
    THEN {[kind |-> "error", data |-> <<>>]}
    ELSE ReadBehaviours

----------------------------------------------------------------------------
(* Transport events: what a call did to the transport, in order *)

WriteEvent(data, status) ==
    [op |-> "write", data |-> data, size |-> 0, timeout |-> 0, status |-> status]

\* a read that hands over every byte the device sent, whatever the size asked
ReadEvent_Unclipped(size, timeout_ms, rd) ==
    [op |-> "read", data |-> rd.data, size |-> size,
     timeout |-> timeout_ms,
     status |-> IF rd.kind = "data" THEN "ok" ELSE rd.kind]

ReadEvent(size, timeout_ms, rd) ==
    [op |-> "read", data |-> Take(rd.data, size), size |-> size,
     timeout |-> timeout_ms,
     status |-> IF rd.kind = "data" THEN "ok" ELSE rd.kind]

----------------------------------------------------------------------------
(* Command formatter and writer *)

\* command.endswith("\n")
EndsWithNewline(command) ==
    Len(command) > 0 /\ command[Len(command)] = NEWLINE

\* mutant of FormatCommand: the newline is appended without looking
FormatCommand_AlwaysAppend(command) == Append(command, NEWLINE)

\* if not command.endswith("\n"): command += "\n"
FormatCommand(command) ==
    IF EndsWithNewline(command) THEN command ELSE Append(command, NEWLINE)

\* the "ascii" codec accepts the code points 0..127
AsciiEncodable(s) == \A i \in 1..Len(s) : s[i] < 128

\* mutant of EncodeAscii: encode(errors="replace") puts "?" for what the codec
\* cannot encode and never fails
EncodeAscii_Replace(s) ==
    [ok |-> TRUE, bytes |-> [i \in 1..Len(s) |-> IF s[i] < 128 THEN s[i] ELSE 63]]

\* str.encode("ascii"): one byte per code point, UnicodeEncodeError on a code
\* point above 127
EncodeAscii(s) ==
    IF AsciiEncodable(s)
    THEN [ok |-> TRUE, bytes |-> [i \in 1..Len(s) |-> s[i]]]
    ELSE [ok |-> FALSE, bytes |-> <<>>]

\* bytes.decode("ascii"): one code point per byte, UnicodeDecodeError on a
\* byte above 127
DecodeAscii(b) ==
    IF \A i \in 1..Len(b) : b[i] < 128
    THEN [ok |-> TRUE, str |-> [i \in 1..Len(b) |-> b[i]]]
    ELSE [ok |-> FALSE, str |-> <<>>]

\* mutant of SendCommandBase: the except branch falls through to "return True"
SendCommandBase_AlwaysTrue(command, wr) ==
    LET enc == EncodeAscii(FormatCommand(command)) IN
    IF ~enc.ok
    THEN [ret |-> TRUE, raised |-> "none", io |-> <<>>]
    ELSE [ret |-> TRUE, raised |-> "none", io |-> <<WriteEvent(enc.bytes, wr)>>]

\* OwonSCPIBase._send_command: any exception (the encoding error, the
\* transport's error) is printed and turned into False
SendCommandBase(command, wr) ==
    LET enc == EncodeAscii(FormatCommand(command)) IN
    IF ~enc.ok
    THEN [ret |-> FALSE, raised |-> "none", io |-> <<>>]
    ELSE [ret |-> (wr = "ok"), raised |-> "none",
          io |-> <<WriteEvent(enc.bytes, wr)>>]

\* mutant of SendCommandUSB: a failed write is tried once more
SendCommandUSB_Retry(command, wr) ==
    LET enc == EncodeAscii(FormatCommand(command)) IN
    IF ~enc.ok
    THEN [ret |-> FALSE, raised |-> "EncodingError", io |-> <<>>]
    ELSE IF wr = "ok"
    THEN [ret |-> TRUE, raised |-> "none", io |-> <<WriteEvent(enc.bytes, wr)>>]
    ELSE [ret |-> FALSE, raised |-> "none",
          io |-> <<WriteEvent(enc.bytes, wr), WriteEvent(enc.bytes, wr)>>]

\* OwonUSBSCPI._send_command: only usb.core.USBError is turned into False; the
\* encoding error leaves the method
SendCommandUSB(command, wr) ==
    LET enc == EncodeAscii(FormatCommand(command)) IN
    IF ~enc.ok
    THEN [ret |-> FALSE, raised |-> "EncodingError", io |-> <<>>]
    ELSE [ret |-> (wr = "ok"), raised |-> "none",
          io |-> <<WriteEvent(enc.bytes, wr)>>]

----------------------------------------------------------------------------
(* Packet parser and validator *)

ParseError(kind) == [err |-> kind, data |-> <<>>]

ParseOk(data) == [err |-> "none", data |-> data]

\* the parser without its len(data) < 4 check
parse_and_validate_packet_NoShortCheck(data, length_header) ==
    IF length_header
    THEN LET hdr_length == FromBytesLittle(Take(data, HEADER_SIZE)) IN
         IF hdr_length = 0
         THEN ParseError("ZeroLength")
         ELSE IF hdr_length > UNREASONABLE_PACKET_HEADER_LENGTH
         THEN ParseError("UnreasonableLength")
         ELSE IF Len(data) - HEADER_SIZE < hdr_length
         THEN ParseError("TruncatedPacket")
         ELSE ParseOk(Slice(data, HEADER_SIZE, HEADER_SIZE + hdr_length))
    ELSE LET newline == Find(data, NEWLINE) IN
         IF newline = -1
         THEN ParseError("MissingTerminator")
         ELSE ParseOk(Slice(data, 0, newline))

\* the parser comparing the length with the buffer before the ceiling
parse_and_validate_packet_TruncationFirst(data, length_header) ==
    IF length_header
    THEN IF Len(data) < HEADER_SIZE
         THEN ParseError("ShortHeader")
         ELSE LET hdr_length == FromBytesLittle(Take(data, HEADER_SIZE)) IN
              IF hdr_length = 0
              THEN ParseError("ZeroLength")
              ELSE IF Len(data) - HEADER_SIZE < hdr_length
              THEN ParseError("TruncatedPacket")
              ELSE IF hdr_length > UNREASONABLE_PACKET_HEADER_LENGTH
              THEN ParseError("UnreasonableLength")
              ELSE ParseOk(Slice(data, HEADER_SIZE, HEADER_SIZE + hdr_length))
    ELSE LET newline == Find(data, NEWLINE) IN
         IF newline = -1
         THEN ParseError("MissingTerminator")
         ELSE ParseOk(Slice(data, 0, newline))

\* parse_and_validate_packet (owon_scpi_base.py); each ValueError is named
\* after the check that raises it
parse_and_validate_packet(data, length_header) ==
    IF length_header
    THEN IF Len(data) < HEADER_SIZE
         THEN ParseError("ShortHeader")
         ELSE LET hdr_length == FromBytesLittle(Take(data, HEADER_SIZE)) IN
              IF hdr_length = 0
              THEN ParseError("ZeroLength")
              ELSE IF hdr_length > UNREASONABLE_PACKET_HEADER_LENGTH
              THEN ParseError("UnreasonableLength")
              ELSE IF Len(data) - HEADER_SIZE < hdr_length
              THEN ParseError("TruncatedPacket")
              ELSE ParseOk(Slice(data, HEADER_SIZE, HEADER_SIZE + hdr_length))
    ELSE LET newline == Find(data, NEWLINE) IN
         IF newline = -1
         THEN ParseError("MissingTerminator")
         ELSE ParseOk(Slice(data, 0, newline))

\* the parser taking a buffer without a newline as a whole line
usb_parse_and_validate_packet_NoTerminator(data, length_header) ==
    IF length_header
    THEN IF Len(data) < HEADER_SIZE
         THEN ParseError("ShortHeader")
         ELSE LET hdr_length == FromBytesLittle(Take(data, HEADER_SIZE)) IN
              IF hdr_length = 0
              THEN ParseError("ZeroLength")
              ELSE IF hdr_length > UNREASONABLE_PACKET_HEADER_LENGTH
              THEN ParseError("UnreasonableLength")
              ELSE IF Len(data) - HEADER_SIZE < hdr_length
              THEN ParseError("TruncatedPacket")
              ELSE ParseOk(Slice(data, HEADER_SIZE, HEADER_SIZE + hdr_length))
    ELSE LET newline == Find(data, NEWLINE) IN
         IF newline = -1
         THEN ParseOk(data)
         ELSE ParseOk(Slice(data, 0, newline))

\* the parser without its hdr_length == 0 check
usb_parse_and_validate_packet_NoZeroCheck(data, length_header) ==
    IF length_header
    THEN IF Len(data) < HEADER_SIZE
         THEN ParseError("ShortHeader")
         ELSE LET hdr_length == FromBytesLittle(Take(data, HEADER_SIZE)) IN
              IF hdr_length > UNREASONABLE_PACKET_HEADER_LENGTH
              THEN ParseError("UnreasonableLength")
              ELSE IF Len(data) - HEADER_SIZE < hdr_length
              THEN ParseError("TruncatedPacket")
              ELSE ParseOk(Slice(data, HEADER_SIZE, HEADER_SIZE + hdr_length))
    ELSE LET newline == Find(data, NEWLINE) IN
         IF newline = -1
         THEN ParseError("MissingTerminator")
         ELSE ParseOk(Slice(data, 0, newline))

\* the parser comparing the length with len(data), header included
usb_parse_and_validate_packet_WholeLength(data, length_header) ==
    IF length_header
    THEN IF Len(data) < HEADER_SIZE
         THEN ParseError("ShortHeader")
         ELSE LET hdr_length == FromBytesLittle(Take(data, HEADER_SIZE)) IN
              IF hdr_length = 0
              THEN ParseError("ZeroLength")
              ELSE IF hdr_length > UNREASONABLE_PACKET_HEADER_LENGTH
              THEN ParseError("UnreasonableLength")
              ELSE IF Len(data) < hdr_length
              THEN ParseError("TruncatedPacket")
              ELSE ParseOk(Slice(data, HEADER_SIZE, HEADER_SIZE + hdr_length))
    ELSE LET newline == Find(data, NEWLINE) IN
         IF newline = -1
         THEN ParseError("MissingTerminator")
         ELSE ParseOk(Slice(data, 0, newline))

\* _parse_and_validate_packet (owon_usb_scpi.py): the same checks in the same
\* order
usb_parse_and_validate_packet(data, length_header) ==
    IF length_header
    THEN IF Len(data) < HEADER_SIZE
         THEN ParseError("ShortHeader")
         ELSE LET hdr_length == FromBytesLittle(Take(data, HEADER_SIZE)) IN
              IF hdr_length = 0
              THEN ParseError("ZeroLength")
              ELSE IF hdr_length > UNREASONABLE_PACKET_HEADER_LENGTH
              THEN ParseError("UnreasonableLength")
              ELSE IF Len(data) - HEADER_SIZE < hdr_length
              THEN ParseError("TruncatedPacket")
              ELSE ParseOk(Slice(data, HEADER_SIZE, HEADER_SIZE + hdr_length))
    ELSE LET newline == Find(data, NEWLINE) IN
         IF newline = -1
         THEN ParseError("MissingTerminator")
         ELSE ParseOk(Slice(data, 0, newline))

----------------------------------------------------------------------------
(* Typed decoders *)

\* the byte read with signed=False
ToInt8_Unsigned(byte) == byte

\* int.from_bytes([byte], byteorder="big", signed=True)
ToInt8(byte) == IF byte < 128 THEN byte ELSE byte - 256

\* [int.from_bytes([byte], ...) for byte in resp]
DecodeInt8(resp) == [i \in 1..Len(resp) |-> ToInt8(resp[i])]

\* JSON whitespace and the decimal digits
JsonWhitespace == {32, 9, 10, 13}
Digits == 48..57

RECURSIVE LStrip(_)
LStrip(s) ==
    IF Len(s) > 0 /\ s[1] \in JsonWhitespace THEN LStrip(Drop(s, 1)) ELSE s

RECURSIVE RStrip(_)
RStrip(s) ==
    IF Len(s) > 0 /\ s[Len(s)] \in JsonWhitespace
    THEN RStrip(Take(s, Len(s) - 1))
    ELSE s

RECURSIVE DecimalValue(_)
DecimalValue(s) ==
    IF Len(s) = 0 THEN 0
    ELSE 10 * DecimalValue(Take(s, Len(s) - 1)) + (s[Len(s)] - 48)

\* json.loads(resp) on the texts this model's devices send, which hold only
\* whitespace, digits and control characters: the document is valid exactly
\* when, between optional whitespace, it is a decimal integer without a
\* leading zero; its value is that integer.  Anything else raises
\* json.JSONDecodeError.
JsonLoads(resp) ==
    LET t == RStrip(LStrip(resp)) IN
    IF /\ Len(t) > 0
       /\ \A i \in 1..Len(t) : t[i] \in Digits
       /\ (Len(t) > 1 => t[1] # 48)
    THEN [ok |-> TRUE, val |-> DecimalValue(t)]
    ELSE [ok |-> FALSE, val |-> 0]

----------------------------------------------------------------------------
(* Outcomes of a call, as the caller sees them *)

\* the call returned None
RNone == [kind |-> "none", type |-> "none", val |-> <<>>, err |-> "none"]

\* the call returned a value of the given Python type
RValue(type, val) == [kind |-> "value", type |-> type, val |-> val, err |-> "none"]

\* the call raised
RError(err) == [kind |-> "error", type |-> "none", val |-> <<>>, err |-> err]

\* no call has returned
NoResult == [kind |-> "pending", type |-> "none", val |-> <<>>, err |-> "none"]

\* "not resp" of a str, bytes or None
Falsy(r) == r.kind = "none" \/ (r.kind = "value" /\ r.val = <<>>)

----------------------------------------------------------------------------
(* Transport reads *)

\* OwonSerialSCPI._read_bytes: serial.read returns what arrived before the
\* timeout, possibly nothing; nothing is turned into TimeoutError
SerialReadBytes(size, timeout_ms, rd) ==
    LET ev == ReadEvent(size, timeout_ms, rd) IN
    IF rd.kind = "error"
    THEN [raised |-> "TransportError", data |-> <<>>, io |-> <<ev>>]
    ELSE IF rd.kind = "timeout" \/ ev.data = <<>>
    THEN [raised |-> "TimeoutError", data |-> <<>>, io |-> <<ev>>]
    ELSE [raised |-> "none", data |-> ev.data, io |-> <<ev>>]

\* bytes(self._usb_in.read(size, timeout)): pyusb raises USBTimeoutError or
\* another USBError, or returns the bytes of the transfer, possibly none
USBRead(size, timeout_ms, rd) ==
    LET ev == ReadEvent(size, timeout_ms, rd) IN
    IF rd.kind = "error"
    THEN [raised |-> "TransportError", data |-> <<>>, io |-> <<ev>>]
    ELSE IF rd.kind = "timeout"
    THEN [raised |-> "TimeoutError", data |-> <<>>, io |-> <<ev>>]
    ELSE [raised |-> "none", data |-> ev.data, io |-> <<ev>>]

\* "return data" / "return data.decode('ascii')"
ReturnData(binary, data) ==
    IF binary
    THEN RValue("bytes", data)
    ELSE IF DecodeAscii(data).ok
         THEN RValue("str", DecodeAscii(data).str)
         ELSE RError("DecodeError")

\* mutant of ReadResponseBase: under length-prefixed framing the 4-byte header
\* is read on its own and the body by a second read
ReadResponseBase_HeaderFirst(binary, length_header, bypass_length_checks, rd) ==
    LET r == SerialReadBytes(max_response_size, timeout, rd)
        p == parse_and_validate_packet(r.data, length_header)
        out ==
            IF r.raised = "TransportError" THEN RError("TransportError")
            ELSE IF r.raised = "TimeoutError" \/ r.data = <<>> THEN RNone
            ELSE IF ~bypass_length_checks
            THEN IF p.err # "none" THEN RError(p.err)
                 ELSE ReturnData(binary, p.data)
            ELSE IF length_header
            THEN ReturnData(binary, Slice(r.data, HEADER_SIZE, Len(r.data)))
            ELSE ReturnData(binary, r.data)
    IN [res |-> out,
        io |-> IF length_header /\ r.raised = "none" THEN r.io \o r.io ELSE r.io]

\* mutant of ReadResponseBase: "except Exception" in place of "except
\* TimeoutError", so a validation failure becomes None as well
ReadResponseBase_CatchAll(binary, length_header, bypass_length_checks, rd) ==
    LET r == SerialReadBytes(max_response_size, timeout, rd)
        p == parse_and_validate_packet(r.data, length_header)
        out ==
            IF r.raised = "TransportError" THEN RNone
            ELSE IF r.raised = "TimeoutError" \/ r.data = <<>> THEN RNone
            ELSE IF ~bypass_length_checks
            THEN IF p.err # "none" THEN RNone
                 ELSE ReturnData(binary, p.data)
            ELSE IF length_header
            THEN ReturnData(binary, Slice(r.data, HEADER_SIZE, Len(r.data)))
            ELSE ReturnData(binary, r.data)
    IN [res |-> out, io |-> r.io]

\* OwonSCPIBase._read_response: one read; an empty read counts as a timeout;
\* TimeoutError, and only it, becomes None
ReadResponseBase(binary, length_header, bypass_length_checks, rd) ==
    LET r == SerialReadBytes(max_response_size, timeout, rd)
        p == parse_and_validate_packet(r.data, length_header)
        out ==
            IF r.raised = "TransportError" THEN RError("TransportError")
            ELSE IF r.raised = "TimeoutError" \/ r.data = <<>> THEN RNone
            ELSE IF ~bypass_length_checks
            THEN IF p.err # "none" THEN RError(p.err)
                 ELSE ReturnData(binary, p.data)
            ELSE IF length_header
            THEN ReturnData(binary, Slice(r.data, HEADER_SIZE, Len(r.data)))
            ELSE ReturnData(binary, r.data)
    IN [res |-> out, io |-> r.io]

\* mutant of ReadResponseUSB: "except usb.core.USBError" in place of "except
\* usb.core.USBTimeoutError", so every transport error becomes None
ReadResponseUSB_CatchUSBError(binary, length_header, bypass_length_checks, rd) ==
    LET r == USBRead(max_response_size, timeout, rd)
        p == usb_parse_and_validate_packet(r.data, length_header)
        out ==
            IF r.raised = "TransportError" THEN RNone
            ELSE IF r.raised = "TimeoutError" THEN RNone
            ELSE IF ~bypass_length_checks
            THEN IF p.err # "none" THEN RError(p.err)
                 ELSE ReturnData(binary, p.data)
            ELSE IF length_header
            THEN ReturnData(binary, Slice(r.data, HEADER_SIZE, Len(r.data)))
            ELSE ReturnData(binary, r.data)
    IN [res |-> out, io |-> r.io]

\* OwonUSBSCPI._read_response: one read; USBTimeoutError, and only it,
\* becomes None; an empty transfer goes on to the validator
ReadResponseUSB(binary, length_header, bypass_length_checks, rd) ==
    LET r == USBRead(max_response_size, timeout, rd)
        p == usb_parse_and_validate_packet(r.data, length_header)
        out ==
            IF r.raised = "TransportError" THEN RError("TransportError")
            ELSE IF r.raised = "TimeoutError" THEN RNone
            ELSE IF ~bypass_length_checks
            THEN IF p.err # "none" THEN RError(p.err)
                 ELSE ReturnData(binary, p.data)
            ELSE IF length_header
            THEN ReturnData(binary, Slice(r.data, HEADER_SIZE, Len(r.data)))
            ELSE ReturnData(binary, r.data)
    IN [res |-> out, io |-> r.io]

----------------------------------------------------------------------------
(* set and query *)

\* mutant of Int8NeedsHeader: the check is gone
Int8NeedsHeader_Never(data_type, length_header) == FALSE

\* if data_type == "int8" and not length_header: raise ValueError(...)
Int8NeedsHeader(data_type, length_header) ==
    data_type = "int8" /\ ~length_header

\* the decode step of query on a response that is not falsy
DecodeResponse(data_type, res) ==
    CASE data_type = "str" -> res
      [] data_type = "json" ->
            IF JsonLoads(res.val).ok
            THEN RValue("json", JsonLoads(res.val).val)
            ELSE RError("DecodeError")
      [] data_type = "bin" -> res
      [] data_type = "int8" -> RValue("int8list", DecodeInt8(res.val))

\* OwonSCPIBase.set
SetBase(command, wr) ==
    LET s == SendCommandBase(command, wr) IN
    [res |-> RValue("bool", s.ret), io |-> s.io]

\* OwonUSBSCPI.set
SetUSB(command, wr) ==
    LET s == SendCommandUSB(command, wr) IN
    [res |-> IF s.raised # "none" THEN RError(s.raised) ELSE RValue("bool", s.ret),
     io |-> s.io]

\* OwonSCPIBase.query
QueryBase(command, data_type, length_header, bypass_length_checks, wr, rd) ==
    LET s == SendCommandBase(command, wr)
        r == ReadResponseBase(data_type \in {"bin", "int8"}, length_header,
                              bypass_length_checks, rd)
    IN
    IF Int8NeedsHeader(data_type, length_header)
    THEN [res |-> RError("InvalidArgument"), io |-> <<>>]
    ELSE IF ~s.ret
    THEN [res |-> RNone, io |-> s.io]
    ELSE IF data_type \in {"str", "json", "bin", "int8"}
    THEN [res |-> IF r.res.kind = "error" THEN r.res
                  ELSE IF Falsy(r.res) THEN RNone
                  ELSE DecodeResponse(data_type, r.res),
          io |-> s.io \o r.io]
    ELSE [res |-> RError("InvalidArgument"), io |-> s.io]

\* if data_type == "int8" and not length_header: raise ValueError(...)
Int8NeedsHeaderUSB(data_type, length_header) ==
    data_type = "int8" /\ ~length_header

\* OwonUSBSCPI.query
QueryUSB(command, data_type, length_header, bypass_length_checks, wr, rd) ==
    LET s == SendCommandUSB(command, wr)
        r == ReadResponseUSB(data_type \in {"bin", "int8"}, length_header,
                             bypass_length_checks, rd)
    IN
    IF Int8NeedsHeaderUSB(data_type, length_header)
    THEN [res |-> RError("InvalidArgument"), io |-> <<>>]
    ELSE IF s.raised # "none"
    THEN [res |-> RError(s.raised), io |-> s.io]
    ELSE IF ~s.ret
    THEN [res |-> RNone, io |-> s.io]
    ELSE IF data_type \in {"str", "json", "bin", "int8"}
    THEN [res |-> IF r.res.kind = "error" THEN r.res
                  ELSE IF Falsy(r.res) THEN RNone
                  ELSE DecodeResponse(data_type, r.res),
          io |-> s.io \o r.io]
    ELSE [res |-> RError("InvalidArgument"), io |-> s.io]

\* the engine class in use decides which methods run
SetCall(b, command, wr) ==
    IF b = "base" THEN SetBase(command, wr) ELSE SetUSB(command, wr)

QueryCall(b, command, data_type, length_header, bypass_length_checks, wr, rd) ==
    IF b = "base"
    THEN QueryBase(command, data_type, length_header, bypass_length_checks, wr, rd)
    ELSE QueryUSB(command, data_type, length_header, bypass_length_checks, wr, rd)

\* self._read_response() with its defaults (binary=False, length_header=False,
\* bypass_length_checks=False), as the "read" command of run_cli_loop and of
\* owon_usb_scpi.main makes it: a read with no command written before it
ReadCall(b, rd) ==
    IF b = "base"
    THEN ReadResponseBase(FALSE, FALSE, FALSE, rd)
    ELSE ReadResponseUSB(FALSE, FALSE, FALSE, rd)

----------------------------------------------------------------------------
(* close *)

\* a close() that releases the transport whatever its state
CloseSerial_Always(h, n) ==
    [handle |-> "closed", released |-> n + 1, res |-> RValue("bool", TRUE)]

\* OwonSerialSCPI.close: h is the port's is_open, n the number of
\* serial.Serial.close() calls made so far
CloseSerial(h, n) ==
    IF h = "open"
    THEN [handle |-> "closed", released |-> n + 1, res |-> RValue("bool", TRUE)]
    ELSE [handle |-> h, released |-> n, res |-> RValue("bool", FALSE)]

\* OwonUSBSCPI.close: h is whether _device is set, n the number of
\* usb.util.dispose_resources calls made so far
CloseUSB(h, n) ==
    IF h = "open"
    THEN [handle |-> "closed", released |-> n + 1, res |-> RValue("bool", TRUE)]
    ELSE [handle |-> h, released |-> n, res |-> RValue("bool", FALSE)]

CloseCall(b, h, n) ==
    IF b = "base" THEN CloseSerial(h, n) ELSE CloseUSB(h, n)

----------------------------------------------------------------------------
(* The state machine: one engine, one caller *)

\* the arguments of the call in progress
NoCall ==
    [op |-> "none", command |-> <<>>, data_type |-> "str",
     length_header |-> FALSE, bypass_length_checks |-> FALSE]

SetArgs(command) ==
    [op |-> "set", command |-> command, data_type |-> "str",
     length_header |-> FALSE, bypass_length_checks |-> FALSE]

QueryArgs(command, data_type, length_header, bypass_length_checks) ==
    [op |-> "query", command |-> command, data_type |-> data_type,
     length_header |-> length_header,
     bypass_length_checks |-> bypass_length_checks]

CloseArgs ==
    [op |-> "close", command |-> <<>>, data_type |-> "str",
     length_header |-> FALSE, bypass_length_checks |-> FALSE]

ReadArgs ==
    [op |-> "read", command |-> <<>>, data_type |-> "str",
     length_header |-> FALSE, bypass_length_checks |-> FALSE]

\* number of threads that call into the one engine
NumThreads == 2

Threads == 1..NumThreads

\* a thread that is not inside a call; "from" is the thread whose command the
\* bytes of its last read answered (0: no bytes)
IdleThread ==
    [pc |-> "idle", command |-> <<>>, data_type |-> "str", result |-> NoResult,
     from |-> 0, answered |-> <<>>]

\* no module-level function is being evaluated
NoFunction == [fn |-> "none"]

\* after construction: OwonSerialSCPI(timeout=t) or OwonUSBSCPI(timeout=t);
\* the transport handle (the serial port, the USB device) is open
Init ==
    /\ backend \in Backends
    /\ timeout \in Timeouts
    /\ max_response_size = MAX_RESPONSE_SIZE
    /\ pc = "idle"
    /\ call = NoCall
    /\ io = <<>>
    /\ result = NoResult
    /\ handle = "open"
    /\ released = 0
    /\ fn_in = NoFunction
    /\ fn_out = NoFunction
    /\ th = [t \in Threads |-> IdleThread]
    /\ lock = 0
    /\ wire = <<>>
    /\ pending = <<>>
    /\ calls = 0

\* the caller calls set(command); the call runs to its end
Set ==
    /\ pc = "idle"
    /\ \E command \in Commands, wr \in WritesOn(backend, handle) :
          LET c == SetCall(backend, command, wr) IN
          /\ call' = SetArgs(command)
          /\ io' = c.io
          /\ result' = c.res
    /\ pc' = "done"
    /\ UNCHANGED <<backend, timeout, max_response_size, handle, released,
                   fn_in, fn_out, env>>

\* the caller calls query(command, data_type, length_header,
\* bypass_length_checks); the call runs to its end
Query ==
    /\ pc = "idle"
    /\ \E command \in Commands, data_type \in AnyDataType,
          length_header \in BOOLEAN, bypass_length_checks \in BOOLEAN,
          wr \in WritesOn(backend, handle), rd \in ReadBehaviours :
          LET c == QueryCall(backend, command, data_type, length_header,
                             bypass_length_checks, wr, rd) IN
          /\ call' = QueryArgs(command, data_type, length_header,
                               bypass_length_checks)
          /\ io' = c.io
          /\ result' = c.res
    /\ pc' = "done"
    /\ UNCHANGED <<backend, timeout, max_response_size, handle, released,
                   fn_in, fn_out, env>>

\* a return that leaves the call's frame on the engine
Return_KeepsFrame ==
    /\ pc = "done"
    /\ pc' = "idle"
    /\ UNCHANGED <<backend, timeout, max_response_size, call, io, result,
                   handle, released, fn_in, fn_out, env>>

\* the caller takes the outcome; the call's frame (arguments, read buffer,
\* result) is gone, the engine keeps nothing of it
Return ==
    /\ pc = "done"
    /\ pc' = "idle"
    /\ call' = NoCall
    /\ io' = <<>>
    /\ result' = NoResult
    /\ fn_in' = NoFunction
    /\ fn_out' = NoFunction
    /\ UNCHANGED <<backend, timeout, max_response_size, handle, released, env>>

\* the interactive loop's "read" command: _read_response() is called alone,
\* no command is written; it takes what the transport holds unread
Read ==
    /\ pc = "idle"
    /\ \E rd \in ReadsOn(backend, handle) :
          LET c == ReadCall(backend, rd) IN
          /\ call' = ReadArgs
          /\ io' = c.io
          /\ result' = c.res
    /\ pc' = "done"
    /\ UNCHANGED <<backend, timeout, max_response_size, handle, released,
                   fn_in, fn_out, env>>

\* the caller calls close(); the call makes no transport write or read
Close ==
    /\ pc = "idle"
    /\ LET c == CloseCall(backend, handle, released) IN
          /\ handle' = c.handle
          /\ released' = c.released
          /\ result' = c.res
    /\ call' = CloseArgs
    /\ io' = <<>>
    /\ pc' = "done"
    /\ UNCHANGED <<backend, timeout, max_response_size, fn_in, fn_out, env>>

\* what a program does with the engine: set, query, the bare read of the
\* interactive loop and close (the loop's "finally: self.close()"), in any
\* order
Next == Set \/ Query \/ Read \/ Close \/ Return

Spec == Init /\ [][Next]_vars

\* the engine over its whole life, with the default timeout
InitLife == Init /\ timeout = DEFAULT_TIMEOUT

NextLife == Set \/ Query \/ Read \/ Close \/ Return

SpecLife == InitLife /\ [][NextLife]_vars

----------------------------------------------------------------------------
(* Threads that call query(command) on the one engine, and the device *)

\* the commands the threads send: "A", "B"
ConcCommands == {<<65>>, <<66>>}

\* the device answers a command line with one line: the command's first
\* character in lower case
DeviceAnswer(bytes) == <<bytes[1] + 32, NEWLINE>>

RECURSIVE AllBytes(_)
AllBytes(w) == IF w = <<>> THEN <<>> ELSE w[1].data \o AllBytes(Tail(w))

\* what a read finds on the transport: serial.Serial.read waits for the
\* timeout and returns every byte that has arrived, a USB bulk read returns
\* one transfer, the oldest response; with nothing there both time out
Arrived(b, w) ==
    IF w = <<>>
    THEN [kind |-> "timeout", data |-> <<>>]
    ELSE [kind |-> "data", data |-> IF b = "base" THEN AllBytes(w) ELSE w[1].data]

\* what the read leaves on the transport
LeftOver(b, w) == IF w = <<>> \/ b = "base" THEN <<>> ELSE Tail(w)

\* the data types the threads ask for
ConcDataTypes == {"str", "bin"}

\* the query a thread makes: query(command, data_type), the framing arguments
\* at their defaults, on a transport whose write succeeds
ThreadQuery(command, data_type, rd) ==
    QueryCall(backend, command, data_type, FALSE, FALSE, "ok", rd)

\* the thread's record on entering query(command, data_type)
Entered(pc_, command, data_type) ==
    [IdleThread EXCEPT !.pc = pc_, !.command = command, !.data_type = data_type]

\* a thread enters query(command, data_type)
Begin(t) ==
    /\ th[t].pc = "idle"
    /\ \E command \in ConcCommands, data_type \in ConcDataTypes :
          th' = [th EXCEPT ![t] = Entered("called", command, data_type)]
    /\ UNCHANGED <<backend, timeout, max_response_size, pc, call, io, result,
                   handle, released, fn_in, fn_out, lock, wire, pending, calls>>

\* a thread is about to call query(command, data_type) and asks for the
\* callers' mutex
Want(t) ==
    /\ th[t].pc = "idle"
    /\ \E command \in ConcCommands, data_type \in ConcDataTypes :
          th' = [th EXCEPT ![t] = Entered("waiting", command, data_type)]
    /\ UNCHANGED <<backend, timeout, max_response_size, pc, call, io, result,
                   handle, released, fn_in, fn_out, lock, wire, pending, calls>>

\* the thread gets the mutex and enters query
Acquire(t) ==
    /\ th[t].pc = "waiting"
    /\ lock = 0
    /\ lock' = t
    /\ th' = [th EXCEPT ![t].pc = "called"]
    /\ UNCHANGED <<backend, timeout, max_response_size, pc, call, io, result,
                   handle, released, fn_in, fn_out, wire, pending, calls>>

\* a query that waits with its write while another query is between its
\* write and its read
Send_Exclusive(t) ==
    /\ th[t].pc = "called"
    /\ \A u \in Threads \ {t} : th[u].pc # "sent"
    /\ LET w == ThreadQuery(th[t].command, th[t].data_type,
                            Arrived(backend, <<>>)).io[1] IN
          wire' = Append(wire, [to |-> t, command |-> th[t].command,
                                data |-> DeviceAnswer(w.data)])
    /\ th' = [th EXCEPT ![t].pc = "sent"]
    /\ UNCHANGED <<backend, timeout, max_response_size, pc, call, io, result,
                   handle, released, fn_in, fn_out, lock, pending, calls>>

\* a query that writes its command twice
Send_Twice(t) ==
    /\ th[t].pc = "called"
    /\ LET w == ThreadQuery(th[t].command, th[t].data_type,
                            Arrived(backend, <<>>)).io[1]
           a == [to |-> t, command |-> th[t].command,
                 data |-> DeviceAnswer(w.data)]
       IN wire' = wire \o <<a, a>>
    /\ th' = [th EXCEPT ![t].pc = "sent"]
    /\ UNCHANGED <<backend, timeout, max_response_size, pc, call, io, result,
                   handle, released, fn_in, fn_out, lock, pending, calls>>

\* query, first half: the argument check and _send_command; the device gets
\* the command line and its answer is on its way
Send(t) ==
    /\ th[t].pc = "called"
    /\ LET w == ThreadQuery(th[t].command, th[t].data_type,
                            Arrived(backend, <<>>)).io[1] IN
          wire' = Append(wire, [to |-> t, command |-> th[t].command,
                                data |-> DeviceAnswer(w.data)])
    /\ th' = [th EXCEPT ![t].pc = "sent"]
    /\ UNCHANGED <<backend, timeout, max_response_size, pc, call, io, result,
                   handle, released, fn_in, fn_out, lock, pending, calls>>

\* query, second half: _read_response and the decode step, on what the
\* transport holds at this moment
Receive(t) ==
    /\ th[t].pc = "sent"
    /\ th' = [th EXCEPT ![t] =
                 [pc |-> "done", command |-> th[t].command,
                  data_type |-> th[t].data_type,
                  result |-> ThreadQuery(th[t].command, th[t].data_type,
                                         Arrived(backend, wire)).res,
                  from |-> IF wire = <<>> THEN 0 ELSE wire[1].to,
                  answered |-> IF wire = <<>> THEN <<>> ELSE wire[1].command]]
    /\ wire' = LeftOver(backend, wire)
    /\ UNCHANGED <<backend, timeout, max_response_size, pc, call, io, result,
                   handle, released, fn_in, fn_out, lock, pending, calls>>

\* query returns to the thread, which gives up the mutex if it holds it
Finish(t) ==
    /\ th[t].pc = "done"
    /\ th' = [th EXCEPT ![t] = IdleThread]
    /\ lock' = IF lock = t THEN 0 ELSE lock
    /\ UNCHANGED <<backend, timeout, max_response_size, pc, call, io, result,
                   handle, released, fn_in, fn_out, wire, pending, calls>>

InitConc == Init /\ timeout = DEFAULT_TIMEOUT

\* the threads call query with no lock
NextConc == \E t \in Threads : Begin(t) \/ Send(t) \/ Receive(t) \/ Finish(t)

SpecConc == InitConc /\ [][NextConc]_vars

\* every call is made with the callers' mutex held from before the call until
\* after its return
NextLocked ==
    \E t \in Threads :
        Want(t) \/ Acquire(t) \/ Send(t) \/ Receive(t) \/ Finish(t)

SpecLocked == InitConc /\ [][NextLocked]_vars

----------------------------------------------------------------------------
(* One caller, and a device whose answers can come late.  wire holds the
   answers that have arrived and were not read, pending the answers still on
   their way, oldest first; an answer carries the number of the call it
   answers.  th[1] is the one caller: th[1].from is the number of the call
   whose answer the last read returned first, th[1].answered its command. *)

\* calls made in a run
MaxCalls == 3

\* the answer of the device to the command line written by call number n
Answer(n, command, written) ==
    [to |-> n, command |-> command, data |-> DeviceAnswer(written)]

\* the caller's record after a call whose read found w on the transport
ReadFrom(w) ==
    [IdleThread EXCEPT !.from = IF w = <<>> THEN 0 ELSE w[1].to,
                       !.answered = IF w = <<>> THEN <<>> ELSE w[1].command]

\* a query that empties the transport's input buffer before it writes
QueryDevice_FlushesInput ==
    /\ pc = "idle"
    /\ calls < MaxCalls
    /\ \E command \in ConcCommands, data_type \in ConcDataTypes,
          k \in 0..Len(pending), intime \in BOOLEAN :
          /\ intime => k = Len(pending)
          /\ LET written == ThreadQuery(command, data_type,
                                        Arrived(backend, <<>>)).io[1].data
                 answer == Answer(calls + 1, command, written)
                 seen == IF intime THEN <<answer>> ELSE <<>>
                 q == ThreadQuery(command, data_type, Arrived(backend, seen))
             IN /\ call' = QueryArgs(command, data_type, FALSE, FALSE)
                /\ io' = q.io
                /\ result' = q.res
                /\ th' = [th EXCEPT ![1] = ReadFrom(seen)]
                /\ wire' = LeftOver(backend, seen)
                /\ pending' = SubSeq(pending, k + 1, Len(pending))
                                 \o (IF intime THEN <<>> ELSE <<answer>>)
    /\ calls' = calls + 1
    /\ pc' = "done"
    /\ UNCHANGED <<backend, timeout, max_response_size, handle, released,
                   fn_in, fn_out, lock>>

\* the caller calls query(command, data_type): the command is written, the
\* device answers it after the answers it still owes; during the wait of the
\* read the first k of the answers on their way arrive, and the answer to
\* this command too (intime) or not; the one read returns what the transport
\* holds then, the unread answers of earlier calls first
QueryDevice ==
    /\ pc = "idle"
    /\ calls < MaxCalls
    /\ \E command \in ConcCommands, data_type \in ConcDataTypes,
          k \in 0..Len(pending), intime \in BOOLEAN :
          /\ intime => k = Len(pending)
          /\ LET written == ThreadQuery(command, data_type,
                                        Arrived(backend, <<>>)).io[1].data
                 answer == Answer(calls + 1, command, written)
                 seen == wire \o SubSeq(pending, 1, k)
                              \o (IF intime THEN <<answer>> ELSE <<>>)
                 q == ThreadQuery(command, data_type, Arrived(backend, seen))
             IN /\ call' = QueryArgs(command, data_type, FALSE, FALSE)
                /\ io' = q.io
                /\ result' = q.res
                /\ th' = [th EXCEPT ![1] = ReadFrom(seen)]
                /\ wire' = LeftOver(backend, seen)
                /\ pending' = SubSeq(pending, k + 1, Len(pending))
                                 \o (IF intime THEN <<>> ELSE <<answer>>)
    /\ calls' = calls + 1
    /\ pc' = "done"
    /\ UNCHANGED <<backend, timeout, max_response_size, handle, released,
                   fn_in, fn_out, lock>>

\* the caller calls set(command): the command is written and nothing is
\* read; a command the device answers (answers) leaves its answer on its way
SetDevice ==
    /\ pc = "idle"
    /\ calls < MaxCalls
    /\ \E command \in ConcCommands, answers \in BOOLEAN :
          LET c == SetCall(backend, command, "ok")
              answer == Answer(calls + 1, command, c.io[1].data)
          IN /\ call' = SetArgs(command)
             /\ io' = c.io
             /\ result' = c.res
             /\ pending' = IF answers THEN Append(pending, answer) ELSE pending
    /\ th' = [th EXCEPT ![1] = ReadFrom(<<>>)]
    /\ calls' = calls + 1
    /\ pc' = "done"
    /\ UNCHANGED <<backend, timeout, max_response_size, handle, released,
                   fn_in, fn_out, lock, wire>>

\* between two calls the oldest answer on its way arrives
Deliver ==
    /\ pending # <<>>
    /\ wire' = Append(wire, Head(pending))
    /\ pending' = Tail(pending)
    /\ UNCHANGED <<backend, timeout, max_response_size, pc, call, io, result,
                   handle, released, fn_in, fn_out, th, lock, calls>>

NextDevice == QueryDevice \/ SetDevice \/ Deliver \/ Return

SpecDevice == InitConc /\ [][NextDevice]_vars

----------------------------------------------------------------------------
(* The module-level pure functions, applied to inputs of their own *)

\* longest buffer of the exhaustive family handed to the parser
MaxParseLen == 5
\* longest payload of the exhaustive family handed to the int8 decoder
MaxSamples == 3

\* bytes of the exhaustive family of parser inputs: header digits, "\n", 0xFF
ParseBytes == {0, 1, 2, NEWLINE, 255}
\* lengths declared by the long packets: around one byte's range and around
\* the ceiling
LongLens == {3, 255, 256, 4095, 4096, 4097}
\* first bytes of the long payloads
Seeds == {0, 250}
\* bytes of the exhaustive family of decoder inputs
SampleBytes == {0, 127, 128, 255}

\* a payload of m bytes that runs through the byte values
Pattern(m, seed) == [i \in 1..m |-> (seed + i) % 256]

\* a length header followed by one byte less than declared, by exactly the
\* bytes declared, and by one byte more
LongPackets ==
    {LenHeader(n) \o Pattern(n + d, seed) :
        n \in LongLens, d \in {-1, 0, 1}, seed \in Seeds}

\* data: every short buffer, and the long packets
ParseBuffers == SeqsUpTo(ParseBytes, MaxParseLen) \cup LongPackets

\* resp: every single byte, and every short payload over SampleBytes; the
\* decode step is not reached with an empty payload ("if not resp")
SamplePayloads ==
    {<<b>> : b \in 0..255} \cup (SeqsUpTo(SampleBytes, MaxSamples) \ {<<>>})

\* the two copies of the parser
ParserImpls == {"base", "usb"}

ParsePacket(impl, data, length_header) ==
    IF impl = "base"
    THEN parse_and_validate_packet(data, length_header)
    ELSE usb_parse_and_validate_packet(data, length_header)

\* parse_and_validate_packet(data, length_header) is called on its own, as the
\* unit tests call it
Parse ==
    /\ pc = "idle"
    /\ \E impl \in ParserImpls, data \in ParseBuffers, length_header \in BOOLEAN :
          /\ fn_in' = [fn |-> "parse", impl |-> impl, data |-> data,
                       length_header |-> length_header]
          /\ fn_out' = [fn |-> "parse",
                        out |-> ParsePacket(impl, data, length_header)]
    /\ pc' = "done"
    /\ UNCHANGED <<backend, timeout, max_response_size, call, io, result,
                   handle, released, env>>

\* the int8 decode step of query is applied to a payload
DecodeSamples ==
    /\ pc = "idle"
    /\ \E resp \in SamplePayloads :
          /\ fn_in' = [fn |-> "int8", resp |-> resp]
          /\ fn_out' = [fn |-> "int8", samples |-> DecodeInt8(resp)]
    /\ pc' = "done"
    /\ UNCHANGED <<backend, timeout, max_response_size, call, io, result,
                   handle, released, env>>

InitPure == Init /\ backend = "base" /\ timeout = DEFAULT_TIMEOUT

NextPure == Parse \/ DecodeSamples \/ Return

SpecPure == InitPure /\ [][NextPure]_vars

----------------------------------------------------------------------------
(* Queries whose response is as long as one read, or longer *)

\* declared lengths around what one read can hold and around the ceiling
LongDeclared == {2043, 2044, 2045, 4096, 4097}

\* m bytes "1"
Fill(m) == [i \in 1..m |-> 49]

\* what the device sends: a length header followed by the bytes it declares,
\* or by 2043, 2044 or 2045 bytes; a line of 2044, 2046, 2047 or 2048
\* characters and its newline
LongResponses ==
    UNION {{LenHeader(n) \o Fill(m) : m \in {n, 2043, 2044, 2045}} :
              n \in LongDeclared}
    \cup {Append(Fill(m), NEWLINE) : m \in {2044, 2046, 2047, 2048}}

LongReads ==
    {[kind |-> "timeout", data |-> <<>>]}
    \cup {[kind |-> "data", data |-> b] : b \in LongResponses}

\* the data types whose decoding of a long payload is modelled
LongDataTypes == {"str", "bin", "int8"}

\* the caller calls query("A", data_type, length_header,
\* bypass_length_checks) and the device sends a long response
QueryLong ==
    /\ pc = "idle"
    /\ \E data_type \in LongDataTypes, length_header \in BOOLEAN,
          bypass_length_checks \in BOOLEAN, rd \in LongReads :
          LET c == QueryCall(backend, <<65>>, data_type, length_header,
                             bypass_length_checks, "ok", rd) IN
          /\ call' = QueryArgs(<<65>>, data_type, length_header,
                               bypass_length_checks)
          /\ io' = c.io
          /\ result' = c.res
    /\ pc' = "done"
    /\ UNCHANGED <<backend, timeout, max_response_size, handle, released,
                   fn_in, fn_out, env>>

NextLong == QueryLong \/ Return

SpecLong == Init /\ [][NextLong]_vars

----------------------------------------------------------------------------
(* The device layer: DeviceIdentification and OwonDevice.identify.  Text is
   a sequence of code points: "OWON" is <<79, 87, 79, 78>>. *)

\* longest model name of the exhaustive family
MaxModelLen == 4
\* longest *IDN? response of the exhaustive family
MaxIdentLen == 5

COMMA == 44

\* "OWON", "HDS2", "HDS3", "*IDN?"
OWON == <<79, 87, 79, 78>>
HDS2 == <<72, 68, 83, 50>>
HDS3 == <<72, 68, 83, 51>>
IDN == <<42, 73, 68, 78, 63>>

\* the HDS200 models the docstring of is_hds200 lists: HDS25, HDS25S, HDS242,
\* HDS242S, HDS272, HDS272S, HDS2102, HDS2102S, HDS2202, HDS2202S, HDS241,
\* HDS271
HDS200Models ==
    {<<72, 68, 83, 50, 53>>,
     <<72, 68, 83, 50, 53, 83>>,
     <<72, 68, 83, 50, 52, 50>>,
     <<72, 68, 83, 50, 52, 50, 83>>,
     <<72, 68, 83, 50, 55, 50>>,
     <<72, 68, 83, 50, 55, 50, 83>>,
     <<72, 68, 83, 50, 49, 48, 50>>,
     <<72, 68, 83, 50, 49, 48, 50, 83>>,
     <<72, 68, 83, 50, 50, 48, 50>>,
     <<72, 68, 83, 50, 50, 48, 50, 83>>,
     <<72, 68, 83, 50, 52, 49>>,
     <<72, 68, 83, 50, 55, 49>>}

\* models of other series: HDS100, HDS150, HDS300, HDS400, HDS307S, HDS310S,
\* HDS320S
OtherModels ==
    {<<72, 68, 83, 49, 48, 48>>,
     <<72, 68, 83, 49, 53, 48>>,
     <<72, 68, 83, 51, 48, 48>>,
     <<72, 68, 83, 52, 48, 48>>,
     <<72, 68, 83, 51, 48, 55, 83>>,
     <<72, 68, 83, 51, 49, 48, 83>>,
     <<72, 68, 83, 51, 50, 48, 83>>}

\* "H", "D", "S", "2", "3"
ModelChars == {72, 68, 83, 50, 51}

\* model: the listed names and every short string over ModelChars
Models == HDS200Models \cup OtherModels \cup SeqsUpTo(ModelChars, MaxModelLen)

\* manufacturer: "OWON", "OTHER", "owon", "OWO", "OWONX", ""
Manufacturers ==
    {OWON, <<79, 84, 72, 69, 82>>, <<111, 119, 111, 110>>, <<79, 87, 79>>, <<79, 87, 79, 78, 88>>, <<>>}

\* str.startswith(prefix)
StartsWith(s, prefix) ==
    Len(s) >= Len(prefix) /\ SubSeq(s, 1, Len(prefix)) = prefix

\* is_hds200 looking at the model alone
is_hds200_ModelOnly(manufacturer, model) == StartsWith(model, HDS2)

\* DeviceIdentification.is_hds200
is_hds200(manufacturer, model) ==
    manufacturer = OWON /\ StartsWith(model, HDS2)

\* DeviceIdentification.is_hds300
is_hds300(manufacturer, model) ==
    manufacturer = OWON /\ StartsWith(model, HDS3)

\* str.split(sep) for a one-character separator: the pieces between the
\* separators, empty pieces included
RECURSIVE Split(_, _)
Split(s, sep) ==
    LET k == Find(s, sep) IN
    IF k = -1 THEN <<s>> ELSE <<Take(s, k)>> \o Split(Drop(s, k + 1), sep)

\* identify taking the first four of four or more parts
identify_AtLeast4(q) ==
    IF q.kind = "error" THEN q
    ELSE IF Falsy(q) THEN RError("NoIdentification")
    ELSE LET parts == Split(q.val, COMMA) IN
         IF Len(parts) >= 4
         THEN RValue("DeviceIdentification", SubSeq(parts, 1, 4))
         ELSE RError("InvalidIdentification")

\* OwonDevice.identify on the outcome q of self.scpi.query("*IDN?"): the
\* DeviceIdentification is the tuple (manufacturer, model, serial_number,
\* firmware_version); the two ValueErrors are named after their messages
identify(q) ==
    IF q.kind = "error" THEN q
    ELSE IF Falsy(q) THEN RError("NoIdentification")
    ELSE LET parts == Split(q.val, COMMA) IN
         IF Len(parts) = 4
         THEN RValue("DeviceIdentification", parts)
         ELSE RError("InvalidIdentification")

\* bytes of the *IDN? responses: ",", "A", "\n", 0xFF
IdentBytes == {COMMA, 65, NEWLINE, 255}

\* "OWON,HDS272S,1,V2\n"
FullIdentResponse == <<79, 87, 79, 78, 44, 72, 68, 83, 50, 55, 50, 83, 44, 49, 44, 86, 50, 10>>

\* what the read of the *IDN? query can do
IdentReads ==
    {[kind |-> "timeout", data |-> <<>>], [kind |-> "error", data |-> <<>>]}
    \cup {[kind |-> "data", data |-> b] :
             b \in SeqsUpTo(IdentBytes, MaxIdentLen) \cup {FullIdentResponse}}

IdentifyArgs ==
    [op |-> "identify", command |-> IDN, data_type |-> "str",
     length_header |-> FALSE, bypass_length_checks |-> FALSE]

\* the caller calls OwonDevice.identify(); the call runs to its end
Identify ==
    /\ pc = "idle"
    /\ \E wr \in WritesOn(backend, handle), rd \in IdentReads :
          LET q == QueryCall(backend, IDN, "str", FALSE, FALSE, wr, rd) IN
          /\ call' = IdentifyArgs
          /\ io' = q.io
          /\ result' = identify(q.res)
    /\ pc' = "done"
    /\ UNCHANGED <<backend, timeout, max_response_size, handle, released,
                   fn_in, fn_out, env>>

\* is_hds200() and is_hds300() are called on a DeviceIdentification
Classify ==
    /\ pc = "idle"
    /\ \E manufacturer \in Manufacturers, model \in Models :
          /\ fn_in' = [fn |-> "is_hds", manufacturer |-> manufacturer,
                       model |-> model]
          /\ fn_out' = [fn |-> "is_hds",
                        hds200 |-> is_hds200(manufacturer, model),
                        hds300 |-> is_hds300(manufacturer, model)]
    /\ pc' = "done"
    /\ UNCHANGED <<backend, timeout, max_response_size, call, io, result,
                   handle, released, env>>

InitIdent == Init /\ timeout = DEFAULT_TIMEOUT

NextIdent == Identify \/ Classify \/ Return

SpecIdent == InitIdent /\ [][NextIdent]_vars

----------------------------------------------------------------------------
(* What a finished call shows: predicates the properties are written in *)

Done == pc = "done"

IsQuery == Done /\ call.op = "query"

IsSet == Done /\ call.op = "set"

Events(op) == {i \in 1..Len(io) : io[i].op = op}

\* the command as it must appear on the wire
Terminated(command) ==
    IF Len(command) > 0 /\ command[Len(command)] = NEWLINE
    THEN command
    ELSE command \o <<NEWLINE>>

CommandIsAscii == \A i \in 1..Len(call.command) : call.command[i] <= 127

Int8WithNewlineFraming == call.data_type = "int8" /\ ~call.length_header

\* the data type is one of the four and the framing suits it, as the code
\* checks it
ArgCheckPasses == call.data_type \in DataTypes /\ ~Int8WithNewlineFraming

WriteFailed == \E i \in Events("write") : io[i].status = "error"

ReadFailed == \E i \in Events("read") : io[i].status = "error"

ReadTimedOut == \E i \in Events("read") : io[i].status = "timeout"

ReadGaveNothing ==
    \E i \in Events("read") :
        io[i].status = "timeout" \/ (io[i].status = "ok" /\ io[i].data = <<>>)

ReturnedNone == result.kind = "none"

ReturnedBool(b) ==
    result.kind = "value" /\ result.type = "bool" /\ result.val = b

Raised(err) == result.kind = "error" /\ result.err = err

FramingErrors ==
    {"ShortHeader", "ZeroLength", "UnreasonableLength", "TruncatedPacket",
     "MissingTerminator"}

\* the length a buffer of at least 4 bytes declares (2147483647 stands for
\* every length from 2^31 on)
DeclaredLength(data) ==
    IF data[4] >= 128
    THEN 2147483647
    ELSE data[1] + 256 * data[2] + 65536 * data[3] + 16777216 * data[4]

\* the framing contract of section 4.2, stated on the raw buffer
FramingInvalid(data, length_header) ==
    IF length_header
    THEN \/ Len(data) < 4
         \/ DeclaredLength(data) = 0
         \/ DeclaredLength(data) > 4096
         \/ Len(data) - 4 < DeclaredLength(data)
    ELSE \A i \in 1..Len(data) : data[i] # NEWLINE

\* the payload of a buffer that meets the framing contract
FramedPayload(data, length_header) ==
    IF length_header
    THEN SubSeq(data, 5, 4 + DeclaredLength(data))
    ELSE SubSeq(data, 1, (CHOOSE i \in 1..Len(data) :
                             data[i] = NEWLINE /\ \A j \in 1..(i - 1) : data[j] # NEWLINE) - 1)

\* a read returned a non-empty buffer that the validator has to reject
FramingFailed ==
    /\ ~call.bypass_length_checks
    /\ \E i \in Events("read") :
          /\ io[i].status = "ok"
          /\ io[i].data # <<>>
          /\ FramingInvalid(io[i].data, call.length_header)

\* a payload that is not ASCII text
NotAscii(payload) == \E k \in 1..Len(payload) : payload[k] > 127

\* a payload that is not empty and holds nothing but newlines: no JSON document
Blank(payload) ==
    Len(payload) > 0 /\ \A k \in 1..Len(payload) : payload[k] = NEWLINE

\* a read returned a well-framed buffer whose payload cannot be decoded: it is
\* not ASCII and the data type is decoded as text, or it is blank and the data
\* type is json
DecodeFailed ==
    /\ ~call.bypass_length_checks
    /\ \E i \in Events("read") :
          /\ io[i].status = "ok"
          /\ io[i].data # <<>>
          /\ ~FramingInvalid(io[i].data, call.length_header)
          /\ LET payload == FramedPayload(io[i].data, call.length_header) IN
             \/ call.data_type \in {"str", "json"} /\ NotAscii(payload)
             \/ call.data_type = "json" /\ Blank(payload)

----------------------------------------------------------------------------
(* C1 .. C10 *)

\* C1: a query that passes the argument check and whose send succeeds does
\* exactly one transport write and then exactly one transport read, the read
\* asking for max_response_size bytes with the configured timeout; no read
\* comes before the write and none after the first read, also when that read
\* returned a truncated packet.
C1_OneWriteThenOneRead ==
    (IsQuery /\ ArgCheckPasses /\ CommandIsAscii /\ ~WriteFailed)
    => /\ Len(io) = 2
       /\ io[1].op = "write" /\ io[1].status = "ok"
       /\ io[2].op = "read"
       /\ io[2].size = max_response_size
       /\ io[2].timeout = timeout

\* C1 witness: the single read returned a packet that declares 2 bytes and
\* carries 1, the call raised, and no second read was made
C1_Witness ==
    /\ IsQuery /\ call.length_header /\ ~call.bypass_length_checks
    /\ timeout # DEFAULT_TIMEOUT
    /\ Len(io) = 2 /\ io[2].op = "read" /\ io[2].data = <<2, 0, 0, 0, 49>>
    /\ Raised("TruncatedPacket")

\* C2: a query for int8 with newline framing raises the invalid-argument
\* error with no transport call made, whatever the command.
C2_Int8NewlineRejectedBeforeIO ==
    (IsQuery /\ Int8WithNewlineFraming)
    => (Raised("InvalidArgument") /\ io = <<>>)

\* C2 witness: such a query, with a command that could not even be encoded
C2_Witness ==
    /\ IsQuery /\ Int8WithNewlineFraming
    /\ call.command = <<233>>
    /\ Raised("InvalidArgument") /\ io = <<>>

\* C3: a query for json with newline framing raises the invalid-argument
\* error and performs no I/O.
C3_JsonNewlineRejectedBeforeIO ==
    (IsQuery /\ call.data_type = "json" /\ ~call.length_header)
    => (Raised("InvalidArgument") /\ io = <<>>)

\* C4: when the read of a query without bypass_length_checks returns a
\* non-empty buffer that fails framing validation, the query raises a framing
\* error; it returns neither None nor a value.
C4_FramingFailureRaises ==
    (IsQuery /\ FramingFailed)
    => (result.kind = "error" /\ result.err \in FramingErrors)

\* C4 witness: the read returned a header declaring 4097 bytes and the call
\* raised
C4_Witness ==
    /\ IsQuery /\ FramingFailed
    /\ Len(io) = 2 /\ io[2].data = <<1, 16, 0, 0>>
    /\ Raised("UnreasonableLength")

\* C5: when the read delivers no bytes within the timeout (it raises the
\* timeout or returns an empty buffer), query returns None and raises nothing,
\* for every data type and framing that pass the argument check.
C5_NoBytesGivesNone ==
    (IsQuery /\ ArgCheckPasses /\ ReadGaveNothing) => ReturnedNone

\* C6: when the transport write of a query fails, query returns None and
\* issues no read.
C6_SendFailureGivesNone ==
    (IsQuery /\ WriteFailed) => (ReturnedNone /\ Events("read") = {})

\* C6 witness: one failed write, no read, None
C6_Witness ==
    /\ IsQuery /\ WriteFailed
    /\ Len(io) = 1
    /\ ReturnedNone

\* C7 as claimed: every error kind but the timeout (write or read failure,
\* framing failure, invalid argument, decode error) reaches the caller of
\* query as an error, never as None.
C7_OnlyTimeoutBecomesNone ==
    (/\ IsQuery
     /\ \/ WriteFailed
        \/ ReadFailed
        \/ FramingFailed
        \/ DecodeFailed
        \/ (call.data_type \in {"int8", "json"} /\ ~call.length_header))
    => result.kind = "error"

\* C7 as amended: a read timeout and a failed send (a failed transport write,
\* and in the base engine a command that cannot be encoded) become None; a
\* transport read failure, a framing failure, int8 with newline framing and a
\* payload that cannot be decoded reach the caller as errors.
C7_ErrorsPropagateExceptSend ==
    IsQuery
    => /\ Int8WithNewlineFraming => Raised("InvalidArgument")
       /\ WriteFailed => ReturnedNone
       /\ (ArgCheckPasses /\ ~CommandIsAscii)
             => IF backend = "base" THEN ReturnedNone ELSE Raised("EncodingError")
       /\ ReadTimedOut => ReturnedNone
       /\ ReadFailed => Raised("TransportError")
       /\ FramingFailed => (result.kind = "error" /\ result.err \in FramingErrors)
       /\ DecodeFailed => Raised("DecodeError")

\* C7 witness: the USB engine's read failed and the error reached the caller
C7_Witness ==
    /\ IsQuery /\ backend = "usb"
    /\ ReadFailed
    /\ Raised("TransportError")

\* C8: the bytes of every transport write of set and query are the command
\* ending in one appended newline when it did not end with a newline, and the
\* command itself when it did.
C8_OneTrailingNewline ==
    Done => \A i \in Events("write") : io[i].data = Terminated(call.command)

\* C8 witness: a command that ends with a newline went out unchanged
C8_Witness ==
    /\ Done /\ call.command = <<65, NEWLINE>>
    /\ Events("write") = {1}
    /\ io[1].data = <<65, NEWLINE>>

\* C9 as claimed: a command with a character outside the printable ASCII
\* range (32..126) makes the send fail, and nothing is written.
C9_NonPrintableRejected ==
    (/\ Done /\ (call.op = "query" => ArgCheckPasses)
     /\ \E i \in 1..Len(call.command) : call.command[i] \notin 32..126)
    => /\ Events("write") = {}
       /\ call.op = "set" => ~ReturnedBool(TRUE)
       /\ call.op = "query" => result.kind # "value"

\* C9 as amended: a command with a character above code point 127 makes the
\* send fail on the encoding error and nothing is written: the base engine
\* reports failure (set returns False, query None), the USB engine lets the
\* encoding error reach the caller.
C9_NonAsciiRejected ==
    (Done /\ (call.op = "query" => ArgCheckPasses) /\ ~CommandIsAscii)
    => /\ io = <<>>
       /\ IF backend = "usb" THEN Raised("EncodingError")
          ELSE IF call.op = "set" THEN ReturnedBool(FALSE)
          ELSE ReturnedNone

\* C9 witness: set of a command holding e-acute on the base engine
C9_Witness ==
    /\ IsSet /\ backend = "base"
    /\ call.command = <<65, 233>>
    /\ io = <<>> /\ ReturnedBool(FALSE)

\* C10 as claimed: every set call does exactly one transport write and no
\* read, and returns False when the write fails.
C10_SetWritesOnce ==
    IsSet
    => /\ Len(io) = 1 /\ io[1].op = "write"
       /\ io[1].status = "error" => ReturnedBool(FALSE)

\* C10 as amended: a set call whose command is ASCII does exactly one
\* transport write, of the terminated command, and no read, and returns True
\* when the write succeeded and False when it failed (no second attempt); a
\* set call whose command cannot be encoded does no write.
C10_SetWritesOnceIfEncodable ==
    IsSet
    => IF CommandIsAscii
       THEN /\ Len(io) = 1 /\ io[1].op = "write"
            /\ io[1].data = Terminated(call.command)
            /\ ReturnedBool(io[1].status = "ok")
       ELSE io = <<>>

\* C10 witness: the one write of a set failed and set returned False
C10_Witness ==
    /\ IsSet /\ Len(io) = 1
    /\ io[1].op = "write" /\ io[1].status = "error"
    /\ ReturnedBool(FALSE)

----------------------------------------------------------------------------
(* C11 .. C18: the packet parser and the int8 decoder, under SpecPure *)

\* the parser (either copy) has been applied with length_header=True
ParsedLengthPrefixed ==
    pc = "done" /\ fn_in.fn = "parse" /\ fn_in.length_header

\* the parser (either copy) has been applied with length_header=False
ParsedNewline ==
    pc = "done" /\ fn_in.fn = "parse" /\ ~fn_in.length_header

\* the buffer holds a whole 4-byte header
HasHeader == Len(fn_in.data) >= 4

\* the bytes that follow the 4-byte header
Following == Len(fn_in.data) - 4

ParseSucceeded == fn_out.out.err = "none"

ParseFailedWith(kind) == fn_out.out = [err |-> kind, data |-> <<>>]

\* C11: for every n in 1..4096 and every payload p of n bytes, parsing the
\* 4-byte little-endian encoding of n followed by p with length_header=True
\* succeeds and returns exactly p.
C11_RoundTrip ==
    ParsedLengthPrefixed
    => LET n == Following IN
       (n \in 1..4096 /\ SubSeq(fn_in.data, 1, 4) = LenHeader(n))
       => /\ ParseSucceeded
          /\ fn_out.out.data = SubSeq(fn_in.data, 5, 4 + n)

\* C11 witness: a packet of the largest admitted length, 4096, went round
C11_Witness ==
    /\ ParsedLengthPrefixed /\ Following = 4096
    /\ SubSeq(fn_in.data, 1, 4) = <<0, 16, 0, 0>>
    /\ ParseSucceeded /\ Len(fn_out.out.data) = 4096
    /\ fn_out.out.data = SubSeq(fn_in.data, 5, 4100)

\* C12: for every buffer of 0, 1, 2 or 3 bytes the parser with
\* length_header=True fails with the short-header error and returns no
\* payload.
C12_ShortHeader ==
    (ParsedLengthPrefixed /\ Len(fn_in.data) \in 0..3)
    => ParseFailedWith("ShortHeader")

\* C12 witness: a buffer of 3 bytes was refused as too short for a header
C12_Witness ==
    /\ ParsedLengthPrefixed /\ Len(fn_in.data) = 3
    /\ ParseFailedWith("ShortHeader")

\* C13: for every buffer of at least 4 bytes whose first 4 bytes are all 0
\* (the little-endian encoding of 0), the parser with length_header=True
\* fails with the zero-length error, whatever follows the header.
C13_ZeroLength ==
    (ParsedLengthPrefixed /\ HasHeader /\ SubSeq(fn_in.data, 1, 4) = <<0, 0, 0, 0>>)
    => ParseFailedWith("ZeroLength")

\* C13 witness: a zero header followed by a byte was refused as zero-length
C13_Witness ==
    /\ ParsedLengthPrefixed /\ Len(fn_in.data) = 5
    /\ SubSeq(fn_in.data, 1, 4) = <<0, 0, 0, 0>> /\ fn_in.data[5] # 0
    /\ ParseFailedWith("ZeroLength")

\* C14: for every buffer of at least 4 bytes whose header declares more than
\* 4096 the parser with length_header=True fails with the unreasonable-length
\* error, however many bytes follow the header; a header of exactly 4096 is
\* not refused with that error.
C14_UnreasonableLength ==
    (ParsedLengthPrefixed /\ HasHeader)
    => /\ DeclaredLength(fn_in.data) > 4096 => ParseFailedWith("UnreasonableLength")
       /\ DeclaredLength(fn_in.data) = 4096 => fn_out.out.err # "UnreasonableLength"

\* C14 witness: a header of 4097 with fewer bytes behind it than it declares
\* was refused as unreasonable, not as truncated
C14_Witness ==
    /\ ParsedLengthPrefixed /\ HasHeader
    /\ DeclaredLength(fn_in.data) = 4097 /\ Following = 4096
    /\ ParseFailedWith("UnreasonableLength")

\* C15: for every buffer whose header declares n in 1..4096 and that holds
\* fewer than n bytes after the header, the parser with length_header=True
\* fails with the truncated-packet error and returns no payload.
C15_Truncated ==
    (/\ ParsedLengthPrefixed /\ HasHeader
     /\ DeclaredLength(fn_in.data) \in 1..4096
     /\ Following < DeclaredLength(fn_in.data))
    => ParseFailedWith("TruncatedPacket")

\* C15 witness: a header of 2 with one byte behind it was refused as truncated
C15_Witness ==
    /\ ParsedLengthPrefixed /\ HasHeader
    /\ DeclaredLength(fn_in.data) = 2 /\ Following = 1
    /\ ParseFailedWith("TruncatedPacket")

\* C16: every successful parse with length_header=True returns exactly
\* raw[4 : 4 + declared_len], of the declared length, which is greater than
\* 0; a packet with bytes behind the declared payload still succeeds, the
\* extra bytes being dropped.
C16_ExactPayload ==
    ParsedLengthPrefixed
    => /\ ParseSucceeded
          => /\ HasHeader
             /\ Len(fn_out.out.data) = DeclaredLength(fn_in.data)
             /\ Len(fn_out.out.data) > 0
             /\ fn_out.out.data
                  = [i \in 1..DeclaredLength(fn_in.data) |-> fn_in.data[4 + i]]
       /\ (/\ HasHeader
           /\ DeclaredLength(fn_in.data) \in 1..4096
           /\ Following > DeclaredLength(fn_in.data))
          => ParseSucceeded

\* C16 witness: a header of 3 followed by four bytes gave the first three
C16_Witness ==
    /\ ParsedLengthPrefixed /\ HasHeader
    /\ DeclaredLength(fn_in.data) = 3 /\ Following = 4
    /\ ParseSucceeded
    /\ fn_out.out.data = SubSeq(fn_in.data, 5, 7)

\* C17: the parser with length_header=False succeeds exactly when the buffer
\* holds a newline byte; without one it fails with the missing-terminator
\* error, with one it returns the bytes before the first newline, which hold
\* no newline, whatever follows that newline.
C17_NewlineFramed ==
    ParsedNewline
    => IF \A i \in 1..Len(fn_in.data) : fn_in.data[i] # 10
       THEN ParseFailedWith("MissingTerminator")
       ELSE /\ ParseSucceeded
            /\ \A i \in 1..Len(fn_out.out.data) : fn_out.out.data[i] # 10
            /\ \E k \in 1..Len(fn_in.data) :
                  /\ fn_in.data[k] = 10
                  /\ fn_out.out.data = SubSeq(fn_in.data, 1, k - 1)

\* C17 witness: a buffer with two newlines and bytes behind the first gave
\* the byte before the first newline
C17_Witness ==
    /\ ParsedNewline
    /\ fn_in.data = <<1, 10, 2, 10, 255>>
    /\ fn_out.out = [err |-> "none", data |-> <<1>>]

\* the int8 decode step has been applied
DecodedSamples == pc = "done" /\ fn_in.fn = "int8"

\* C18: the int8 decoding gives one sample per payload byte, in order: byte b
\* gives b when b < 128 and b - 256 otherwise, so every sample is in
\* -128..127 and congruent to its byte modulo 256 (0xFF gives -1, 0x7F gives
\* 127, 0x80 gives -128).
C18_SignedSamples ==
    DecodedSamples
    => /\ Len(fn_out.samples) = Len(fn_in.resp)
       /\ \A i \in 1..Len(fn_in.resp) :
             LET b == fn_in.resp[i]
                 v == fn_out.samples[i]
             IN /\ v \in -128..127
                /\ (v - b) % 256 = 0
                /\ b < 128 => v = b
                /\ b >= 128 => v = b - 256
                /\ b = 255 => v = -1
                /\ b = 127 => v = 127
                /\ b = 128 => v = -128

\* C18 witness: 0xFF, 0x7F, 0x80 were decoded to -1, 127, -128
C18_Witness ==
    /\ DecodedSamples
    /\ fn_in.resp = <<255, 127, 128>>
    /\ fn_out.samples = <<-1, 127, -128>>

----------------------------------------------------------------------------
(* C19: what query returns for the data types "str" and "bin", under Spec *)

\* a query for text or bytes whose send succeeded, whose one read returned
\* data, whose buffer meets the framing contract and whose payload, for text,
\* is ASCII
TextOrBinaryDelivered ==
    /\ IsQuery
    /\ call.data_type \in {"str", "bin"}
    /\ ~call.bypass_length_checks
    /\ Len(io) = 2
    /\ io[1].op = "write" /\ io[1].status = "ok"
    /\ io[2].op = "read" /\ io[2].status = "ok" /\ io[2].data # <<>>
    /\ ~FramingInvalid(io[2].data, call.length_header)
    /\ call.data_type = "str"
          => ~NotAscii(FramedPayload(io[2].data, call.length_header))

\* C19 as claimed: for the data types "str" and "bin", whenever the send
\* succeeds, the read returns data and the validation succeeds, query returns
\* the validated payload (as text for "str", as bytes for "bin"), the empty
\* payload of a newline-only response included.
C19_PayloadReturned ==
    TextOrBinaryDelivered
    => /\ result.kind = "value"
       /\ result.type = (IF call.data_type = "str" THEN "str" ELSE "bytes")
       /\ result.val = FramedPayload(io[2].data, call.length_header)

----------------------------------------------------------------------------
(* C20: the life of the transport handle, under SpecLife *)

\* C20: over any sequence of set, query and close calls the handle is
\* released at most once; a step releases it only if it is a close call made
\* on an open handle, and that call returns True; a close call made on a
\* released handle releases nothing and returns False; no set or query call
\* releases the handle or changes its state.
C20_ReleasedOnceByClose ==
    /\ [](released <= 1)
    /\ [][/\ released' # released
             => /\ call'.op = "close"
                /\ handle = "open" /\ handle' = "closed"
                /\ released' = released + 1
                /\ result' = [kind |-> "value", type |-> "bool", val |-> TRUE,
                              err |-> "none"]
          /\ (pc = "idle" /\ call'.op = "close" /\ handle = "open")
             => released' = released + 1
          /\ (pc = "idle" /\ call'.op = "close" /\ handle = "closed")
             => /\ released' = released /\ handle' = handle
                /\ result' = [kind |-> "value", type |-> "bool", val |-> FALSE,
                              err |-> "none"]
          /\ (pc = "idle" /\ call'.op \in {"set", "query"})
             => released' = released /\ handle' = handle]_vars

\* C20 witness: a close call on an already released handle returned False and
\* left the one release as it was
C20_Witness ==
    /\ Done /\ call.op = "close"
    /\ handle = "closed" /\ released = 1
    /\ ReturnedBool(FALSE)

----------------------------------------------------------------------------
(* C21: set and query leave the engine as constructed, under Spec *)

\* C21: no step of a run of set and query calls changes the engine class, the
\* configured timeout or max_response_size, which stay as constructed, and
\* between two calls the engine holds no arguments, read buffer or result of
\* an earlier call.
C21_NoStateKept ==
    /\ [](timeout \in Timeouts /\ max_response_size = 2048)
    /\ [](pc = "idle"
          => /\ io = <<>>
             /\ result = [kind |-> "pending", type |-> "none", val |-> <<>>,
                          err |-> "none"]
             /\ call.op = "none" /\ call.command = <<>>)
    /\ [][/\ timeout' = timeout
          /\ max_response_size' = max_response_size
          /\ backend' = backend]_vars

\* C21 witness: a query on an engine built with the timeout 250 read with
\* that timeout, failed on a truncated packet, and the settings are as built
C21_Witness ==
    /\ IsQuery /\ Raised("TruncatedPacket")
    /\ timeout = 250 /\ max_response_size = 2048
    /\ Len(io) = 2 /\ io[2].op = "read"
    /\ io[2].timeout = 250 /\ io[2].size = 2048

----------------------------------------------------------------------------
(* C22, C23: threads on one engine, under SpecConc and SpecLocked *)

\* the value query(command, data_type) returns for the device's answer to a
\* command: the command's first character in lower case, as text or bytes
OwnAnswer(command, data_type) ==
    [kind |-> "value", type |-> (IF data_type = "str" THEN "str" ELSE "bytes"),
     val |-> <<command[1] + 32>>, err |-> "none"]

\* C22: with two threads calling query on one engine without a lock, the
\* write and the read of a call are not one atomic step: a thread that has
\* entered query can write its command whatever the other thread is doing,
\* also between the other's write and read, and a read returns the oldest
\* answer on the transport, the answer to whichever command was written
\* first, whoever wrote it.
C22_WriteAndReadNotAtomic ==
    \A t \in Threads :
        /\ th[t].pc = "called" => ENABLED Send(t)
        /\ (th[t].pc = "done" /\ th[t].from # 0)
           => th[t].result = OwnAnswer(th[t].answered, th[t].data_type)

\* C22 witness: both threads wrote before either read, and thread 1's query
\* of "A" returned the answer to thread 2's "B"
C22_Witness ==
    /\ th[1].pc = "done" /\ th[1].command = <<65>> /\ th[1].data_type = "str"
    /\ th[2].pc = "sent" /\ th[2].command = <<66>>
    /\ th[1].from = 2
    /\ th[1].result = [kind |-> "value", type |-> "str", val |-> <<98>>,
                       err |-> "none"]

\* C23: when every query call is made with the callers' mutex held across
\* the whole call and the device answers every command in order with one
\* complete response within the timeout, each query returns the answer to
\* its own command, in every interleaving of the threads.
C23_LockedCallsGetOwnAnswer ==
    \A t \in Threads :
        th[t].pc = "done"
        => /\ th[t].from = t
           /\ th[t].answered = th[t].command
           /\ th[t].result = OwnAnswer(th[t].command, th[t].data_type)

\* C23 witness: thread 2's query of "B" returned the answer to "B" while
\* thread 1 was waiting for the mutex with its own command
C23_Witness ==
    /\ th[2].pc = "done" /\ th[2].command = <<66>> /\ th[2].from = 2
    /\ th[2].result = [kind |-> "value", type |-> "bytes", val |-> <<98>>,
                       err |-> "none"]
    /\ lock = 2
    /\ th[1].pc = "waiting" /\ th[1].command = <<65>>

----------------------------------------------------------------------------
(* C24: a length-prefixed packet read under newline framing, under Spec *)

\* a 4-byte little-endian length of 1..4096 followed by exactly that many
\* bytes and nothing else
WellFormedLengthPacket(data) ==
    /\ Len(data) >= 4
    /\ DeclaredLength(data) \in 1..4096
    /\ Len(data) = 4 + DeclaredLength(data)

\* a query with newline framing and the length checks on, of a data type that
\* is read, whose send succeeded and whose one read returned a well-formed
\* length-prefixed packet
LengthPacketUnderNewlineFraming ==
    /\ IsQuery
    /\ ~call.length_header /\ ~call.bypass_length_checks
    /\ call.data_type \in {"str", "json", "bin"}
    /\ Len(io) = 2
    /\ io[1].op = "write" /\ io[1].status = "ok"
    /\ io[2].op = "read" /\ io[2].status = "ok"
    /\ WellFormedLengthPacket(io[2].data)

\* C24 as claimed: for every well-formed length-prefixed response packet with
\* no newline appended, a query with newline framing raises the
\* missing-newline error.
C24_LengthPacketRaises ==
    LengthPacketUnderNewlineFraming => Raised("MissingTerminator")

\* C24 as amended: the query raises the missing-newline error exactly when
\* no byte of the packet, header or payload, is 0x0A; a packet that holds such
\* a byte is cut at the first one and the bytes before it are taken as the
\* response (a "bin" query returns them, when there are any).
C24_LengthPacketRaisesUnlessNewlineByte ==
    LengthPacketUnderNewlineFraming
    => LET data == io[2].data
           where == {i \in 1..Len(data) : data[i] = 10}
       IN IF where = {}
          THEN Raised("MissingTerminator")
          ELSE LET first == CHOOSE i \in where : \A j \in where : i <= j
                   head == SubSeq(data, 1, first - 1)
               IN /\ ~Raised("MissingTerminator")
                  /\ (call.data_type = "bin" /\ head # <<>>)
                     => result = [kind |-> "value", type |-> "bytes",
                                  val |-> head, err |-> "none"]

\* C24 witness: the packet 02 00 00 00 "1" "1" made a text query raise the
\* missing-newline error
C24_Witness ==
    /\ LengthPacketUnderNewlineFraming
    /\ call.data_type = "str"
    /\ io[2].data = <<2, 0, 0, 0, 49, 49>>
    /\ Raised("MissingTerminator")

----------------------------------------------------------------------------
(* C25: bypass_length_checks, under Spec *)

\* C25 as claimed: with bypass_length_checks on, a read performs no framing
\* validation and returns the full packet as the transport delivered it, no
\* byte removed and no error raised, whatever length_header is; seen through
\* a "bin" query, which hands the bytes of the read to its caller.
C25_BypassReturnsFullPacket ==
    (/\ IsQuery
     /\ call.bypass_length_checks
     /\ call.data_type = "bin"
     /\ Len(io) = 2
     /\ io[1].op = "write" /\ io[1].status = "ok"
     /\ io[2].op = "read" /\ io[2].status = "ok" /\ io[2].data # <<>>)
    => result = [kind |-> "value", type |-> "bytes", val |-> io[2].data,
                 err |-> "none"]

----------------------------------------------------------------------------
(* C26: the series tests of DeviceIdentification, under SpecIdent *)

Classified == Done /\ fn_out.fn = "is_hds"

\* the first four characters are "H", "D", "S" and the given digit
SeriesPrefix(model, digit) ==
    /\ Len(model) >= 4
    /\ model[1] = 72 /\ model[2] = 68 /\ model[3] = 83 /\ model[4] = digit

\* C26: is_hds200() is true exactly when the manufacturer is "OWON" and the
\* model starts with "HDS2"; it is true for the listed HDS200 models of OWON,
\* false for HDS100, HDS150, HDS300 and HDS400, false for every other
\* manufacturer whatever the model; is_hds200() and is_hds300() are never
\* both true.
C26_SeriesTest ==
    Classified
    => /\ fn_out.hds200
          = (fn_in.manufacturer = <<79, 87, 79, 78>>
             /\ SeriesPrefix(fn_in.model, 50))
       /\ (fn_in.manufacturer = <<79, 87, 79, 78>>
           /\ fn_in.model \in HDS200Models) => fn_out.hds200
       /\ fn_in.model \in {<<72, 68, 83, 49, 48, 48>>, <<72, 68, 83, 49, 53, 48>>,
                           <<72, 68, 83, 51, 48, 48>>, <<72, 68, 83, 52, 48, 48>>}
          => ~fn_out.hds200
       /\ fn_in.manufacturer # <<79, 87, 79, 78>> => ~fn_out.hds200
       /\ ~(fn_out.hds200 /\ fn_out.hds300)

\* C26 witness: OWON's HDS2202S was classified as HDS200 and not as HDS300
C26_Witness ==
    /\ Classified
    /\ fn_in.manufacturer = <<79, 87, 79, 78>>
    /\ fn_in.model = <<72, 68, 83, 50, 50, 48, 50, 83>>
    /\ fn_out.hds200 /\ ~fn_out.hds300

----------------------------------------------------------------------------
(* C27: OwonDevice.identify, under SpecIdent *)

Identified == Done /\ call.op = "identify"

\* the text the *IDN? query handed to identify: the bytes before the first
\* newline of the one read, when the command was written, the read returned
\* and those bytes are ASCII and not empty; <<>> when there is no such text
IdentText ==
    IF /\ Len(io) = 2
       /\ io[1].status = "ok" /\ io[2].status = "ok"
       /\ \E i \in 1..Len(io[2].data) : io[2].data[i] = 10
    THEN LET data == io[2].data
             first == CHOOSE i \in 1..Len(data) :
                         data[i] = 10 /\ \A j \in 1..(i - 1) : data[j] # 10
             head == SubSeq(data, 1, first - 1)
         IN IF \A i \in 1..Len(head) : head[i] < 128 THEN head ELSE <<>>
    ELSE <<>>

Commas(text) == Cardinality({i \in 1..Len(text) : text[i] = 44})

\* C27: identify() writes the one command "*IDN?\n" and makes at most one
\* read; it returns a DeviceIdentification exactly when the response text
\* splits at its commas into 4 parts, and the four fields are those parts in
\* order; in every other case (another number of parts, no result from the
\* query, an error of the query) it raises; it never returns None.
C27_Identify ==
    Identified
    => /\ Len(io) \in 1..2
       /\ io[1].op = "write" /\ io[1].data = <<42, 73, 68, 78, 63, 10>>
       /\ Len(io) = 2 => io[2].op = "read"
       /\ result.kind \in {"value", "error"}
       /\ result.kind = "value" <=> (IdentText # <<>> /\ Commas(IdentText) = 3)
       /\ result.kind = "value"
          => /\ result.type = "DeviceIdentification"
             /\ Len(result.val) = 4
             /\ \A i \in 1..4 : Commas(result.val[i]) = 0
             /\ result.val[1] \o <<44>> \o result.val[2] \o <<44>>
                  \o result.val[3] \o <<44>> \o result.val[4] = IdentText

\* C27 witness: the response "OWON,HDS272S,1,V2\n" was returned as the
\* identification (OWON, HDS272S, 1, V2)
C27_Witness ==
    /\ Identified
    /\ Len(io) = 2 /\ io[2].data = FullIdentResponse
    /\ result.kind = "value"
    /\ result.val = <<<<79, 87, 79, 78>>, <<72, 68, 83, 50, 55, 50, 83>>,
                      <<49>>, <<86, 50>>>>

----------------------------------------------------------------------------
(* C28: the two engines side by side, under Spec *)

OtherBackend == IF backend = "base" THEN "usb" ELSE "base"

\* what the transport did during the finished call, read off its events: the
\* status of the write (a call that wrote nothing did not depend on it) and
\* the outcome of the read (a call that did not read did not depend on it)
WriteSeen ==
    IF io # <<>> /\ io[1].op = "write" THEN io[1].status ELSE "ok"

ReadSeen ==
    IF Len(io) = 2 /\ io[2].op = "read"
    THEN [kind |-> IF io[2].status = "ok" THEN "data" ELSE io[2].status,
          data |-> io[2].data]
    ELSE [kind |-> "timeout", data |-> <<>>]

\* the outcome of the same call on the other engine under the same transport
\* behaviour
OtherOutcome ==
    IF call.op = "set"
    THEN SetCall(OtherBackend, call.command, WriteSeen).res
    ELSE QueryCall(OtherBackend, call.command, call.data_type,
                   call.length_header, call.bypass_length_checks,
                   WriteSeen, ReadSeen).res

\* C28 as claimed: for every command, data type, framing flag and transport
\* behaviour (the write succeeds or fails; the read returns data, returns an
\* empty buffer or times out), set and query end on the USB engine and on the
\* base engine in the same outcome: the same value, the same no-result, or an
\* error of the same kind.
C28_EnginesEquivalent ==
    (IsSet \/ IsQuery) => result = OtherOutcome

----------------------------------------------------------------------------
(* C29: one caller and late or unread answers, under SpecDevice *)

\* a step that is a whole query call
QueryStep == pc = "idle" /\ pc' = "done" /\ call'.op = "query"

\* C29 as claimed: in a single-threaded run of set and query calls every
\* value a query returns is decoded only from bytes the device sent in answer
\* to that call's command; the answer to an earlier command that arrives late
\* or was never read is never returned by a later query.
C29_OnlyOwnAnswer ==
    (IsQuery /\ result.kind = "value")
    => /\ th[1].from = calls
       /\ result = OwnAnswer(call.command, call.data_type)

\* C29 as amended: a query whose call finds no answer of an earlier command
\* unread or on its way returns only its own answer; when there is one, the
\* value a query returns is decoded from the oldest of them, not from the
\* answer to its own command.
C29_OldestUnreadAnswer ==
    [][(QueryStep /\ result'.kind = "value")
       => IF wire = <<>> /\ pending = <<>>
          THEN /\ th'[1].from = calls'
               /\ result' = OwnAnswer(call'.command, call'.data_type)
          ELSE /\ th'[1].from = (wire \o pending)[1].to
               /\ th'[1].from < calls'
               /\ result' = OwnAnswer((wire \o pending)[1].command,
                                      call'.data_type)]_vars

\* C29 witness: the second call, query("B"), returned "a", the late answer to
\* the first call's command "A", and left its own answer unread or on its way
C29_Witness ==
    /\ IsQuery /\ calls = 2
    /\ call.command = <<66>> /\ call.data_type = "str"
    /\ th[1].from = 1 /\ th[1].answered = <<65>>
    /\ result = [kind |-> "value", type |-> "str", val |-> <<97>>,
                 err |-> "none"]

----------------------------------------------------------------------------
(* C30: what one read of 2048 bytes lets a query return, under SpecLong *)

\* a query that read a buffer with a whole length header
ReadAHeader ==
    /\ IsQuery
    /\ Len(io) = 2 /\ io[2].op = "read" /\ io[2].status = "ok"
    /\ Len(io[2].data) >= 4

\* the query returned a str, a bytes or a list of samples
ReturnedPayload ==
    IsQuery /\ result.kind = "value"
    /\ result.type \in {"str", "bytes", "int8list"}

\* C30 as claimed: a query with a length header succeeds only for declared
\* lengths of at most 2044; every response that declares 2045..4096 makes it
\* fail with the truncated-packet error; no query returns a payload longer
\* than 2044 bytes.
C30_AtMost2044 ==
    /\ (ReadAHeader /\ call.length_header /\ result.kind = "value")
       => DeclaredLength(io[2].data) <= 2044
    /\ (ReadAHeader /\ call.length_header
        /\ DeclaredLength(io[2].data) \in 2045..4096)
       => Raised("TruncatedPacket")
    /\ ReturnedPayload => Len(result.val) <= 2044

\* C30 as amended: the one read asks for 2048 bytes and gets no more; a query
\* with a length header and the length checks on succeeds only for declared
\* lengths of at most 2044 and fails with the truncated-packet error for
\* every response that declares 2045..4096; no query with a length header
\* returns more than 2044 bytes, no newline-framed query with the checks on
\* more than 2047, and no query more than 2048.
C30_AtMostOneRead ==
    /\ (IsQuery /\ Len(io) = 2)
       => (io[2].size = 2048 /\ Len(io[2].data) <= 2048)
    /\ (ReadAHeader /\ call.length_header /\ ~call.bypass_length_checks
        /\ result.kind = "value")
       => DeclaredLength(io[2].data) <= 2044
    /\ (ReadAHeader /\ call.length_header /\ ~call.bypass_length_checks
        /\ DeclaredLength(io[2].data) \in 2045..4096)
       => Raised("TruncatedPacket")
    /\ ReturnedPayload
       => Len(result.val) <= (IF call.length_header THEN 2044
                              ELSE IF ~call.bypass_length_checks THEN 2047
                              ELSE 2048)

\* C30 witness: a response that declares 2045 bytes and sends them all was
\* read as 2048 bytes and made the query fail with the truncated-packet error
C30_Witness ==
    /\ ReadAHeader
    /\ call.length_header /\ ~call.bypass_length_checks
    /\ call.data_type = "bin"
    /\ Len(io[2].data) = 2048
    /\ DeclaredLength(io[2].data) = 2045
    /\ Raised("TruncatedPacket")

====
